---- MODULE Spec2Model ----
(***************************************************************************)
(* Model of ckanext/datahub/commands.py: the `list-paying-users` path of   *)
(* DatahubCommand.  A string is a sequence of character codes (ordinals),  *)
(* a printed line is a string, and `out` is the sequence of lines written  *)
(* to standard output by _print_items.                                     *)
(***************************************************************************)
EXTENDS Integers, Sequences, FiniteSets, TLC

VARIABLES
    pc,            \* position of the command: start, print_items, boxed, flat, done, exited, crashed
    plans,         \* result of datahub_payment_plan_list
    titles,        \* list_paying_users: titles
    stringss,      \* list_paying_users: stringss
    isatty,        \* os.isatty(sys.stdout.fileno())
    ioctl,         \* outcome of fcntl.ioctl(stdout, TIOCGWINSZ)
    window_width,  \* _print_items: window_width (None or Some(width))
    mode,          \* branch of _print_items taken: none, boxed, flat
    column_width,  \* _print_items: column_width (0 until computed)
    i,             \* index of the next (title, strings) pair of the zip loop
    out,           \* lines printed by _print_items
    starts,        \* history: Len(out) when the loop reached each pair
    exit_code      \* None until sys.exit(code)

vars == <<pc, plans, titles, stringss, isatty, ioctl, window_width, mode,
          column_width, i, out, starts, exit_code>>

(* ---------------------------- bounds ---------------------------------- *)
MaxPlans == 2
MaxUsers == 4

(* ------------------------- character codes ---------------------------- *)
TAB == 9
SP == 32
DASH == 45

(* user names and plan names the plan service may hold *)
al == <<97, 108>>
bob == <<98, 111, 98>>
zoe == <<122, 111, 101>>
christopher_x == <<99, 104, 114, 105, 115, 116, 111, 112, 104, 101, 114, 95, 120>>
gold == <<103, 111, 108, 100>>
pro == <<112, 114, 111>>

UserNames == {al, bob, zoe, christopher_x}
PlanNames == {gold, pro}

(* ws_col values the terminal driver may hold (an unsigned short) *)
WsCols == {0, 8, 40, 45, 65535}

(* ------------------------- Python built-ins --------------------------- *)
None == <<>>
Some(v) == <<v>>

Max2(a, b) == IF a >= b THEN a ELSE b
Min2(a, b) == IF a <= b THEN a ELSE b

RECURSIVE MaxOfSet(_)
MaxOfSet(S) ==
    LET x == CHOOSE y \in S : TRUE
    IN  IF S = {x} THEN x ELSE Max2(x, MaxOfSet(S \ {x}))

(* c * n for a one-character string c: empty when n <= 0 *)
Repeat(c, n) == [k \in 1..n |-> c]

(* ordinal comparison of two strings, as Python compares str objects *)
StrLess(a, b) ==
    \/ \E k \in 1..Min2(Len(a), Len(b)) :
          /\ \A j \in 1..(k - 1) : a[j] = b[j]
          /\ a[k] < b[k]
    \/ /\ Len(a) < Len(b)
       /\ \A j \in 1..Len(a) : a[j] = b[j]

RECURSIVE Insert(_, _)
Insert(x, s) ==
    IF s = <<>> THEN <<x>>
    ELSE IF StrLess(s[1], x) THEN <<s[1]>> \o Insert(x, Tail(s))
    ELSE <<x>> \o s

RECURSIVE sorted(_)
sorted(s) == IF s = <<>> THEN <<>> ELSE Insert(s[1], sorted(Tail(s)))

(* ''.join(parts) *)
RECURSIVE Join(_)
Join(parts) == IF parts = <<>> THEN <<>> ELSE parts[1] \o Join(Tail(parts))

(* string.center(s, width): str.center of CPython 2 *)
center(s, width) ==
    LET marg == width - Len(s)
        left == (marg \div 2) + (IF marg % 2 = 1 /\ width % 2 = 1 THEN 1 ELSE 0)
    IN  IF marg <= 0 THEN s
        ELSE Repeat(SP, left) \o s \o Repeat(SP, marg - left)

(* string.ljust(s, width) *)
ljust(s, width) ==
    IF Len(s) >= width THEN s ELSE s \o Repeat(SP, width - Len(s))

(* struct.unpack('h', ...) of an unsigned 16-bit value *)
unpack_h(v) == IF v >= 32768 THEN v - 65536 ELSE v

(* truth value of an Optional[int] in a Python condition *)
Truthy(w) == w # None /\ w[1] # 0

(* ----------------------- the plan service ----------------------------- *)
(* sequences of at most n distinct names drawn from S *)
RECURSIVE DistinctSeqs(_, _)
DistinctSeqs(S, n) ==
    IF n = 0 \/ S = {} THEN {<<>>}
    ELSE {<<>>} \cup
         UNION {{<<x>> \o t : t \in DistinctSeqs(S \ {x}, n - 1)} : x \in S}

Range(s) == {s[k] : k \in 1..Len(s)}

(* plan lists of at most n plans; a user belongs to at most one plan *)
RECURSIVE PlanListsOver(_, _)
PlanListsOver(S, n) ==
    IF n = 0 THEN {<<>>}
    ELSE {<<>>} \cup
         UNION {UNION {{<<[name |-> t, users |-> [k \in 1..Len(us) |-> [name |-> us[k]]]]>> \o rest :
                          rest \in PlanListsOver(S \ Range(us), n - 1)} :
                       us \in DistinctSeqs(S, MaxUsers)} :
                t \in PlanNames}

PlanLists == PlanListsOver(UserNames, MaxPlans)

(* outcomes of the TIOCGWINSZ query: it raises when stdout is no terminal, *)
(* and may raise or deliver a winsize when it is one                       *)
IoctlOutcomes(tty) ==
    {[raises |-> TRUE, ws_col |-> 0]} \cup
    (IF tty THEN {[raises |-> FALSE, ws_col |-> c] : c \in WsCols} ELSE {})

(* ------------------------- list_paying_users -------------------------- *)
plan_titles(ps) == [k \in 1..Len(ps) |-> ps[k].name]

user_names(plan) == [k \in 1..Len(plan.users) |-> plan.users[k].name]

(* variant: the names in the order of the plan record *)
member_strings_unsorted(plan) == user_names(plan)

member_strings(plan) == sorted(user_names(plan))

plan_stringss(ps) == [k \in 1..Len(ps) |-> member_strings(ps[k])]

(* --------------------- _try_to_get_terminal_width --------------------- *)
(* variant: no except clause, the failure reaches the caller *)
_try_to_get_terminal_width_uncaught(io) ==
    IF io.raises THEN [raised |-> TRUE, value |-> None]
    ELSE [raised |-> FALSE, value |-> Some(unpack_h(io.ws_col))]

(* raised: does the call raise to its caller; value: what it returns       *)
_try_to_get_terminal_width(io) ==
    IF io.raises THEN [raised |-> FALSE, value |-> None]
    ELSE [raised |-> FALSE, value |-> Some(unpack_h(io.ws_col))]

(* ----------------------------- _print_items --------------------------- *)
MinColumnChars == 9

(* the condition of the if statement *)
use_columns(w, tty) == Truthy(w) /\ tty

(* max([9] + [len(s) for ss in stringss for s in ss]) + 1 *)
compute_column_width(sss) ==
    MaxOfSet({MinColumnChars} \cup
             UNION {{Len(sss[g][k]) : k \in 1..Len(sss[g])} : g \in 1..Len(sss)}) + 1

(* -------------------------- _print_in_columns ------------------------- *)
num_cols_of(ww, cw) == Max2(1, ww \div cw)

(* variant: floor + 1 instead of ceil *)
num_rows_of_floor_plus_one(n, num_cols) == (n \div num_cols) + 1

num_rows_of(n, num_cols) == (n + num_cols - 1) \div num_cols

(* variant: deals ss round-robin over the columns instead of slicing it *)
columns_of_dealt(ss, num_rows) ==
    LET K == (Len(ss) + num_rows - 1) \div num_rows
    IN  [c \in 1..K |->
            [r \in 1..(((Len(ss) - c) \div K) + 1) |-> ss[c + (r - 1) * K]]]

(* [ss[i:i + num_rows] for i in range(0, len(ss), num_rows)] *)
columns_of(ss, num_rows) ==
    [c \in 1..((Len(ss) + num_rows - 1) \div num_rows) |->
        SubSeq(ss, (c - 1) * num_rows + 1, Min2(c * num_rows, Len(ss)))]

(* izip_longest over the columns, fillvalue='' *)
rows_of(columns) ==
    LET longest == MaxOfSet({0} \cup {Len(columns[c]) : c \in 1..Len(columns)})
    IN  [r \in 1..longest |->
            [c \in 1..Len(columns) |->
                IF r <= Len(columns[c]) THEN columns[c][r] ELSE <<>>]]

(* variant: the fill value is left unpadded *)
expand_cell_unpadded_fill(cell, cw) == IF cell = <<>> THEN <<>> ELSE ljust(cell, cw)

expand_cell(cell, cw) == ljust(cell, cw)

(* the rows of cells built for a non-empty ss *)
cell_rows(ww, cw, ss) ==
    rows_of(columns_of(ss, num_rows_of(Len(ss), num_cols_of(ww, cw))))

row_string(row, cw) == Join([c \in 1..Len(row) |-> expand_cell(row[c], cw)])

(* the lines _print_in_columns prints *)
_print_in_columns(ww, cw, ss) ==
    IF Len(ss) = 0 THEN <<>>
    ELSE LET rows == cell_rows(ww, cw, ss)
         IN  [r \in 1..Len(rows) |-> row_string(rows[r], cw)]

(* variant: the trailing bare print is missing *)
boxed_block_without_blank(ww, cw, title, strings) ==
    <<Repeat(DASH, ww), center(title, ww), Repeat(DASH, ww)>>
        \o _print_in_columns(ww, cw, strings)

(* one iteration of the pretty-printing loop *)
boxed_block(ww, cw, title, strings) ==
    <<Repeat(DASH, ww), center(title, ww), Repeat(DASH, ww)>>
        \o _print_in_columns(ww, cw, strings)
        \o << <<>> >>

(* variant: the loop starts at the second member *)
flat_block_skipping_first(title, strings) ==
    [k \in 1..(Len(strings) - 1) |-> title \o <<TAB>> \o strings[k + 1]]

(* one iteration of the pair-printing loop *)
flat_block(title, strings) ==
    [k \in 1..Len(strings) |-> title \o <<TAB>> \o strings[k]]

(* ------------------------------- state -------------------------------- *)
Init ==
    /\ pc = "start"
    /\ plans = <<>>
    /\ titles = <<>>
    /\ stringss = <<>>
    /\ isatty = FALSE
    /\ ioctl = [raises |-> TRUE, ws_col |-> 0]
    /\ window_width = None
    /\ mode = "none"
    /\ column_width = 0
    /\ i = 1
    /\ out = <<>>
    /\ starts = <<>>
    /\ exit_code = None

(* list_paying_users with the plans the service returns *)
ListPayingUsers ==
    /\ pc = "start"
    /\ \E ps \in PlanLists :
          /\ plans' = ps
          /\ IF Len(ps) = 0
             THEN /\ pc' = "exited"
                  /\ exit_code' = Some(0)
                  /\ UNCHANGED <<titles, stringss>>
             ELSE /\ pc' = "print_items"
                  /\ titles' = plan_titles(ps)
                  /\ stringss' = plan_stringss(ps)
                  /\ UNCHANGED exit_code
    /\ UNCHANGED <<isatty, ioctl, window_width, mode, column_width, i, out, starts>>

(* the service raises ValidationError: command() reports it and exits 1 *)
ValidationError ==
    /\ pc = "start"
    /\ pc' = "exited"
    /\ exit_code' = Some(1)
    /\ UNCHANGED <<plans, titles, stringss, isatty, ioctl, window_width, mode,
                   column_width, i, out, starts>>

(* _print_items up to the loop: width query, mode choice, column width *)
PrintItems ==
    /\ pc = "print_items"
    /\ \E tty \in BOOLEAN :
        \E io \in IoctlOutcomes(tty) :
          LET r == _try_to_get_terminal_width(io)
          IN  /\ isatty' = tty
              /\ ioctl' = io
              /\ IF r.raised
                 THEN /\ pc' = "crashed"
                      /\ UNCHANGED <<window_width, mode, column_width>>
                 ELSE /\ window_width' = r.value
                      /\ IF use_columns(r.value, tty)
                         THEN /\ mode' = "boxed"
                              /\ pc' = "boxed"
                              /\ column_width' = compute_column_width(stringss)
                         ELSE /\ mode' = "flat"
                              /\ pc' = "flat"
                              /\ UNCHANGED column_width
    /\ UNCHANGED <<plans, titles, stringss, i, out, starts, exit_code>>

PrintGroupBoxed ==
    /\ pc = "boxed"
    /\ i <= Min2(Len(titles), Len(stringss))
    /\ out' = out \o boxed_block(window_width[1], column_width, titles[i], stringss[i])
    /\ starts' = Append(starts, Len(out))
    /\ i' = i + 1
    /\ UNCHANGED <<pc, plans, titles, stringss, isatty, ioctl, window_width, mode,
                   column_width, exit_code>>

PrintGroupFlat ==
    /\ pc = "flat"
    /\ i <= Min2(Len(titles), Len(stringss))
    /\ out' = out \o flat_block(titles[i], stringss[i])
    /\ starts' = Append(starts, Len(out))
    /\ i' = i + 1
    /\ UNCHANGED <<pc, plans, titles, stringss, isatty, ioctl, window_width, mode,
                   column_width, exit_code>>

(* the loop is exhausted: _print_items and the command return *)
Return ==
    /\ pc \in {"boxed", "flat"}
    /\ i > Min2(Len(titles), Len(stringss))
    /\ pc' = "done"
    /\ UNCHANGED <<plans, titles, stringss, isatty, ioctl, window_width, mode,
                   column_width, i, out, starts, exit_code>>

Next ==
    \/ ListPayingUsers
    \/ ValidationError
    \/ PrintItems
    \/ PrintGroupBoxed
    \/ PrintGroupFlat
    \/ Return

Spec == Init /\ [][Next]_vars

(* ===================================================================== *)
(*                       Properties of the report                        *)
(* ===================================================================== *)

(* the lines printed for the g-th pair, once the loop has passed it *)
Block(g) ==
    SubSeq(out, starts[g] + 1, IF g < Len(starts) THEN starts[g + 1] ELSE Len(out))

Printed == 1..Len(starts)

Queried == pc \in {"boxed", "flat", "done", "crashed"}

UsersOf(g) == {plans[g].users[k].name : k \in 1..Len(plans[g].users)}

NumUsers(g) == Len(plans[g].users)

RECURSIVE UsersBefore(_)
UsersBefore(g) == IF g <= 1 THEN 0 ELSE UsersBefore(g - 1) + NumUsers(g - 1)

(* the flat-mode lines that belong to plan g, by counting memberships *)
FlatSegment(g) == SubSeq(out, UsersBefore(g) + 1, UsersBefore(g) + NumUsers(g))

PairLine(t, m) == t \o <<TAB>> \o m

AllDashes(l) == \A k \in 1..Len(l) : l[k] = DASH

(* '-' * w: w dashes, none when w is not positive *)
Divider(l, w) == AllDashes(l) /\ Len(l) = (IF w > 0 THEN w ELSE 0)

AllSpaces(l) == \A k \in 1..Len(l) : l[k] = SP

(* t centred in w characters: spaces on both sides, differing by at most one *)
Centered(l, t, w) ==
    /\ Len(l) = (IF w > Len(t) THEN w ELSE Len(t))
    /\ \E left \in 0..Len(l) :
          /\ left + Len(t) <= Len(l)
          /\ SubSeq(l, left + 1, left + Len(t)) = t
          /\ AllSpaces(SubSeq(l, 1, left))
          /\ AllSpaces(SubSeq(l, left + Len(t) + 1, Len(l)))
          /\ (Len(l) - Len(t) - left) - left \in {-1, 0, 1}

(* smallest q with q * b >= a, for a >= 0 and b >= 1 *)
CeilDiv(a, b) == CHOOSE q \in 0..a : q * b >= a /\ (q = 0 \/ (q - 1) * b < a)

(* ------------------------------- C1 ----------------------------------- *)
(* C1: boxed column output is produced if and only if stdout is a          *)
(* terminal and the width query returned a width (anything but None);      *)
(* otherwise the output is flat, without divider or title banner lines.    *)
C1_ModeSelection ==
    pc \in {"boxed", "flat", "done"} =>
        /\ mode = "boxed" <=> (isatty /\ window_width # None)
        /\ mode = "flat" =>
              \A k \in 1..Len(out) :
                  /\ ~AllDashes(out[k])
                  /\ \E g \in 1..Len(plans) : \E m \in UsersOf(g) :
                        out[k] = PairLine(plans[g].name, m)
        /\ (mode = "boxed" /\ Len(starts) > 0) =>
              /\ Divider(out[1], window_width[1])
              /\ Centered(out[2], plans[1].name, window_width[1])

(* ------------------------------- C2 ----------------------------------- *)
(* C2: in flat mode the output holds exactly one line title<TAB>member per *)
(* membership: plan g contributes exactly its n lines (none for an empty   *)
(* plan), nothing is dropped or duplicated, and plans keep input order.    *)
C2_FlatOneLinePerMembership ==
    (pc = "done" /\ mode = "flat") =>
        /\ Len(out) = UsersBefore(Len(plans) + 1)
        /\ \A g \in 1..Len(plans) :
              LET seg == FlatSegment(g)
              IN  /\ Len(seg) = NumUsers(g)
                  /\ {seg[k] : k \in 1..Len(seg)} =
                        {PairLine(plans[g].name, m) : m \in UsersOf(g)}
                  /\ \A a, b \in 1..Len(seg) : a # b => seg[a] # seg[b]

C2_Witness ==
    /\ pc = "done" /\ mode = "flat"
    /\ Len(plans) = 2
    /\ NumUsers(1) = 0
    /\ NumUsers(2) >= 2
    /\ Len(out) = NumUsers(2)

(* ------------------------------- C3 ----------------------------------- *)
(* C3 as stated: in flat mode the members of each plan are printed in the  *)
(* order of the plan record's users, unsorted.                             *)
C3_OriginalOrder ==
    (pc = "done" /\ mode = "flat") =>
        \A g \in 1..Len(plans) :
            FlatSegment(g) =
                [k \in 1..NumUsers(g) |-> PairLine(plans[g].name, plans[g].users[k].name)]

(* C3 amended: in flat mode the members of each plan are printed in        *)
(* ascending ordinal order of their names, whatever the order of the plan  *)
(* record's users.                                                         *)
C3_FlatSortedOrder ==
    (pc = "done" /\ mode = "flat") =>
        \A g \in 1..Len(plans) :
            LET seg == FlatSegment(g)
                t == plans[g].name
                member(k) == SubSeq(seg[k], Len(t) + 2, Len(seg[k]))
            IN  /\ \A k \in 1..Len(seg) :
                      /\ seg[k] = PairLine(t, member(k))
                      /\ member(k) \in UsersOf(g)
                /\ \A k \in 1..(Len(seg) - 1) : StrLess(member(k), member(k + 1))

C3_Witness ==
    /\ pc = "done" /\ mode = "flat"
    /\ \E g \in 1..Len(plans) :
          /\ NumUsers(g) = 3
          /\ plans[g].name = gold
          /\ plans[g].users[1].name = bob
          /\ plans[g].users[2].name = al
          /\ plans[g].users[3].name = zoe
          /\ out = <<PairLine(gold, al), PairLine(gold, bob), PairLine(gold, zoe)>>

(* --------------------------- boxed layout ----------------------------- *)
Boxed == mode = "boxed" /\ pc \in {"boxed", "done"}

Width == window_width[1]

LongestMember ==
    MaxOfSet({0} \cup UNION {{Len(m) : m \in UsersOf(g)} : g \in 1..Len(plans)})

(* the member rows of a printed block: what lies between banner and blank *)
RowLines(g) == SubSeq(Block(g), 4, Len(Block(g)) - 1)

(* columns the layout may use, and columns it does use for n members *)
NumColumns == IF Width \div column_width >= 1 THEN Width \div column_width ELSE 1
NumRows(n) == CeilDiv(n, NumColumns)
UsedColumns(n) == CeilDiv(n, NumRows(n))

(* ------------------------------- C4 ----------------------------------- *)
(* C4: in boxed mode columnWidth = max(10, longest member over every       *)
(* plan) + 1 and numColumns = max(1, floor(width / columnWidth)); for      *)
(* gold = [bob, al, zoe] at width 40: columnWidth 11, 3 columns, 1 row,    *)
(* cells of 11 characters.                                                 *)
C4_ColumnWidth ==
    Boxed =>
        /\ column_width = (IF LongestMember > 10 THEN LongestMember ELSE 10) + 1
        /\ (/\ Len(plans) = 1 /\ plans[1].name = gold /\ Width = 40
            /\ user_names(plans[1]) = <<bob, al, zoe>>
            /\ pc = "done")
           => /\ column_width = 11
              /\ Len(RowLines(1)) = 1
              /\ Len(RowLines(1)[1]) = 3 * 11

(* ------------------------------- C5 ----------------------------------- *)
(* C5 as stated: in boxed mode every member row before the final row of a  *)
(* plan is exactly numColumns * columnWidth characters long, and           *)
(* columnWidth >= 10.                                                      *)
C5_OriginalWidthLaw ==
    Boxed =>
        /\ column_width >= 10
        /\ \A g \in Printed :
              \A r \in 1..(Len(RowLines(g)) - 1) :
                  Len(RowLines(g)[r]) = NumColumns * column_width

(* C5 amended: in boxed mode every member row of a plan with n members,    *)
(* the final row included, is exactly usedColumns * columnWidth characters *)
(* long, where numRows = ceil(n / numColumns) and usedColumns =            *)
(* ceil(n / numRows) <= numColumns; and columnWidth >= 10.                 *)
C5_WidthLaw ==
    Boxed =>
        /\ column_width >= 10
        /\ \A g \in Printed :
              \A r \in 1..Len(RowLines(g)) :
                  /\ Len(RowLines(g)[r]) = UsedColumns(NumUsers(g)) * column_width
                  /\ UsedColumns(NumUsers(g)) <= NumColumns

C5_Witness ==
    /\ Boxed
    /\ \E g \in Printed :
          /\ Len(RowLines(g)) = 2
          /\ UsedColumns(NumUsers(g)) < NumColumns
          /\ Len(RowLines(g)[1]) = 2 * column_width

(* ------------------------------- C6 ----------------------------------- *)
RECURSIVE RStrip(_)
RStrip(l) ==
    IF l # <<>> /\ l[Len(l)] = SP THEN RStrip(SubSeq(l, 1, Len(l) - 1)) ELSE l

(* the cell of a printed row line in column c, without its padding *)
Cell(line, c) == RStrip(SubSeq(line, (c - 1) * column_width + 1, c * column_width))

(* C6: in boxed mode, reading the cells of a plan's rows column by column  *)
(* (top to bottom, then left to right) gives the plan's members in         *)
(* ascending ordinal order, each exactly once; padding cells occur only at *)
(* the bottom of the last column.                                          *)
C6_ColumnMajorOrder ==
    Boxed =>
        \A g \in Printed :
            LET rows == RowLines(g)
                R == Len(rows)
                n == NumUsers(g)
                K == IF R = 0 THEN 0 ELSE Len(rows[1]) \div column_width
                at(p) == Cell(rows[((p - 1) % R) + 1], ((p - 1) \div R) + 1)
            IN  /\ n = 0 <=> R = 0
                /\ R * K >= n
                /\ \A r \in 1..R : Len(rows[r]) = K * column_width
                /\ \A p \in 1..(R * K) :
                      IF p <= n
                      THEN at(p) \in UsersOf(g)
                      ELSE at(p) = <<>> /\ ((p - 1) \div R) + 1 = K
                /\ \A p \in 1..(n - 1) : StrLess(at(p), at(p + 1))

C6_Witness ==
    /\ Boxed
    /\ \E g \in Printed :
          /\ NumUsers(g) = 3
          /\ user_names(plans[g]) = <<zoe, al, bob>>
          /\ Len(RowLines(g)) = 2
          /\ Cell(RowLines(g)[1], 1) = al
          /\ Cell(RowLines(g)[2], 1) = bob
          /\ Cell(RowLines(g)[1], 2) = zoe
          /\ Cell(RowLines(g)[2], 2) = <<>>

(* ------------------------------- C7 ----------------------------------- *)
(* C7: in boxed mode the output is, for each plan in input order: a        *)
(* divider of width dashes, the title centred in width characters, a       *)
(* second divider, the plan's rows, one blank line; a plan without members *)
(* has an empty row block; blocks do not interleave.                       *)
C7_BoxedBlocks ==
    Boxed =>
        /\ Len(starts) = i - 1
        /\ (pc = "done" => Len(starts) = Len(plans))
        /\ Len(starts) > 0 => starts[1] = 0
        /\ Len(starts) = 0 => out = <<>>
        /\ \A g \in Printed :
              LET b == Block(g)
              IN  /\ Len(b) >= 4
                  /\ Divider(b[1], Width)
                  /\ Centered(b[2], plans[g].name, Width)
                  /\ Divider(b[3], Width)
                  /\ b[Len(b)] = <<>>
                  /\ NumUsers(g) = 0 => Len(b) = 4
                  /\ NumUsers(g) > 0 => Len(b) > 4
                  /\ \A r \in 1..Len(RowLines(g)) :
                        /\ RowLines(g)[r] # <<>>
                        /\ RowLines(g)[r][1] \notin {DASH, SP}
                        /\ \E m \in UsersOf(g) :
                              SubSeq(RowLines(g)[r], 1, Len(m)) = m
                  /\ \A m \in UsersOf(g) :
                        \E r \in 1..Len(RowLines(g)) :
                            \E c \in 1..(Len(RowLines(g)[r]) \div column_width) :
                                Cell(RowLines(g)[r], c) = m

C7_Witness ==
    /\ Boxed /\ pc = "done"
    /\ Len(plans) = 2
    /\ NumUsers(1) = 0
    /\ NumUsers(2) = 2
    /\ Width = 8
    /\ Len(out) = 10

(* ------------------------------- C8 ----------------------------------- *)
(* C8: a width of zero or less handed to rendering aborts it at once with  *)
(* an invalid-input error and no report output; the width is never         *)
(* silently clamped and rendering never silently falls back to a mode.     *)
C8_InvalidWidthFailsFast ==
    (Queried /\ window_width # None /\ window_width[1] <= 0) =>
        /\ pc = "crashed"
        /\ mode = "none"
        /\ out = <<>>

(* ------------------------------- C9 ----------------------------------- *)
(* C9: a failed width query never raises to the caller: it is reported as  *)
(* width None, _print_items then runs to completion in flat mode and       *)
(* prints the title<TAB>member lines, also while stdout is a terminal.     *)
C9_WidthQueryNeverRaises ==
    (Queried /\ ioctl.raises) =>
        /\ pc \in {"flat", "done"}
        /\ window_width = None
        /\ mode = "flat"
        /\ exit_code = None
        /\ Len(out) = UsersBefore(i)
        /\ \A g \in 1..(i - 1) : \A m \in UsersOf(g) :
              \E k \in 1..Len(out) : out[k] = PairLine(plans[g].name, m)
        /\ ENABLED Next \/ pc = "done"

C9_Witness ==
    /\ pc = "done"
    /\ ioctl.raises
    /\ isatty
    /\ window_width = None
    /\ Len(out) = 3

(* ------------------------------- C10 ---------------------------------- *)
(* C10: for a non-empty plan of n members, window_width >= 1 and           *)
(* column_width >= 1, exactly ceil(n / num_cols) rows are printed, every   *)
(* row holds the same number k = ceil(n / num_rows) of cells with          *)
(* 1 <= k <= num_cols, and no row is longer than window_width when         *)
(* column_width <= window_width.                                           *)
C10_RowsAndCells ==
    (Boxed /\ Width >= 1 /\ column_width >= 1) =>
        \A g \in Printed :
            NumUsers(g) > 0 =>
                LET n == NumUsers(g)
                    cells == cell_rows(Width, column_width, stringss[g])
                    k == CeilDiv(n, CeilDiv(n, NumColumns))
                IN  /\ Len(RowLines(g)) = CeilDiv(n, NumColumns)
                    /\ Len(cells) = Len(RowLines(g))
                    /\ \A r \in 1..Len(cells) : Len(cells[r]) = k
                    /\ 1 <= k /\ k <= NumColumns
                    /\ column_width <= Width =>
                          \A r \in 1..Len(RowLines(g)) : Len(RowLines(g)[r]) <= Width

C10_Witness ==
    /\ Boxed
    /\ Width = 45
    /\ \E g \in Printed :
          /\ NumUsers(g) = 4
          /\ NumColumns = 3
          /\ Len(RowLines(g)) = 2
          /\ Len(RowLines(g)[2]) = 28

====
